---------------------------- MODULE Spec2Model ----------------------------
(* Page-replacement engines of the memory simulator: ClockMMU            *)
(* (clockmmu.py), LruMMU (lrummu.py) and RandMMU (randmmu.py).           *)
(* One engine instance is constructed and then driven by a sequence of   *)
(* read_memory / write_memory / set_debug / reset_debug calls.           *)
(* Python lists and dicts are functions; list indices are 0-based as in  *)
(* the source.                                                           *)
EXTENDS Integers, Sequences, FiniteSets, TLC

(* ---------------------------- bounds -------------------------------- *)
\* largest frame count handed to a constructor
MaxFrames == 2
\* page numbers of the trace are 1..MaxPage
MaxPage == 3
\* calls stop once page_faults has reached this value
MaxFaults == 4

Pages == 1..MaxPage
\* frame counts handed to the constructors (memsim's argument is any int)
Capacities == (-1)..MaxFrames
Kinds == {"clock", "lru", "rand"}

(* ------------------------- Python helpers --------------------------- *)
\* None, as stored in a frame slot (no trace page has this number)
None == -1

\* [x] * n : a list of n copies of x; n <= 0 gives the empty list
ListOf(x, n) == [i \in 0..(n - 1) |-> x]

\* d[k] = v on a dict
DictSet(d, k, v) == [x \in (DOMAIN d) \cup {k} |-> IF x = k THEN v ELSE d[x]]

\* del d[k] / d.pop(k) for a key that is present
DictDel(d, k) == [x \in (DOMAIN d) \ {k} |-> d[x]]

\* the empty dict {}
EmptyDict == [x \in {} |-> 0]

\* smallest element of a non-empty set of integers (first index of a scan)
Min(S) == CHOOSE x \in S : \A y \in S : x <= y

(* ============================ ClockMMU ============================== *)
\* a frame slot: None or a dict {page_number, reference_bit, dirty_bit}
NoneFrame == [page_number |-> None, reference_bit |-> 0, dirty_bit |-> 0]

\* ClockFrame as read_memory builds it, whatever the access
ClockFrameClean(page_number, dirty) ==
    [page_number |-> page_number, reference_bit |-> 1, dirty_bit |-> 0]

\* ClockFrame with the reference bit of the loaded page left at 0
ClockFrameUnreferenced(page_number, dirty) ==
    [page_number |-> page_number, reference_bit |-> 0, dirty_bit |-> dirty]

\* ClockFrame as write_memory builds it, whatever the access
ClockFrameDirty(page_number, dirty) ==
    [page_number |-> page_number, reference_bit |-> 1, dirty_bit |-> 1]

\* the dict a load stores in a frame slot
ClockFrame(page_number, dirty) ==
    [page_number |-> page_number, reference_bit |-> 1, dirty_bit |-> dirty]

\* ClockMMU.__init__ : raises ValueError when frames < 1
ClockInit(frames) ==
    IF frames < 1
    THEN [self |-> [frames_capacity |-> frames], raised |-> "ValueError"]
    ELSE [self |-> [frames_capacity |-> frames,
                    frames |-> ListOf(NoneFrame, frames),
                    hand |-> 0,
                    page_to_index |-> EmptyDict,
                    used |-> 0,
                    page_faults |-> 0,
                    disk_reads |-> 0,
                    disk_writes |-> 0,
                    debug |-> FALSE],
          raised |-> "None"]

\* ClockHits with the scan leaving the loop after frame 0
ClockHitsFirstOnly(self, page_number) ==
    {i \in DOMAIN self.frames :
        i = 0 /\ self.frames[i] # NoneFrame
              /\ self.frames[i].page_number = page_number}

\* indices of the frames holding page_number (the HIT scan)
ClockHits(self, page_number) ==
    {i \in DOMAIN self.frames :
        self.frames[i] # NoneFrame /\ self.frames[i].page_number = page_number}

\* indices of the free frames (the free-frame scan)
ClockFree(self) == {idx \in DOMAIN self.frames : self.frames[idx] = NoneFrame}

\* ClockSweep without the assignment that clears the reference bit (the
\* loop is cut off after 3 * cap iterations)
RECURSIVE ClockSweepNoClear(_, _, _, _)
ClockSweepNoClear(frames, hand, cap, steps) ==
    IF frames[hand].reference_bit = 1 /\ steps < 3 * cap
    THEN ClockSweepNoClear(frames, (hand + 1) % cap, cap, steps + 1)
    ELSE [frames |-> frames, hand |-> hand, steps |-> steps + 1]

\* ClockSweep without the test of the reference bit: the frame under the
\* hand is the victim
ClockSweepEvictAtHand(frames, hand, cap, steps) ==
    [frames |-> frames, hand |-> hand, steps |-> steps + 1]

\* ClockSweep clearing the whole frame state, dirty bit included
RECURSIVE ClockSweepClearsDirty(_, _, _, _)
ClockSweepClearsDirty(frames, hand, cap, steps) ==
    IF frames[hand].reference_bit = 1
    THEN ClockSweepClearsDirty(
             [frames EXCEPT ![hand].reference_bit = 0, ![hand].dirty_bit = 0],
             (hand + 1) % cap, cap, steps + 1)
    ELSE [frames |-> frames, hand |-> hand, steps |-> steps + 1]

\* the while-loop's reference-bit pass: clears bits and advances the hand
\* until the frame under the hand has reference bit 0
RECURSIVE ClockSweep(_, _, _, _)
ClockSweep(frames, hand, cap, steps) ==
    IF frames[hand].reference_bit = 1
    THEN ClockSweep([frames EXCEPT ![hand].reference_bit = 0],
                    (hand + 1) % cap, cap, steps + 1)
    ELSE [frames |-> frames, hand |-> hand, steps |-> steps + 1]

\* ClockWriteBack without the test of the dirty bit
ClockWriteBackAlways(disk_writes, victim) == disk_writes + 1

\* disk_writes after evicting victim
ClockWriteBack(disk_writes, victim) ==
    IF victim.dirty_bit = 1 THEN disk_writes + 1 ELSE disk_writes

\* ClockEvict without the hand's move past the victim
ClockEvictHandStays(self, page_number, dirty) ==
    LET s == ClockSweep(self.frames, self.hand, self.frames_capacity, 0)
        victim_frame == s.hand
        victim == s.frames[victim_frame]
    IN  [self EXCEPT
            !.disk_writes = ClockWriteBack(self.disk_writes, victim),
            !.frames = [s.frames EXCEPT
                           ![victim_frame] = ClockFrame(page_number, dirty)],
            !.hand = victim_frame]

\* the eviction branch: sweep, write back a dirty victim, replace it, and
\* move the hand one past the victim
ClockEvict(self, page_number, dirty) ==
    LET s == ClockSweep(self.frames, self.hand, self.frames_capacity, 0)
        victim_frame == s.hand
        victim == s.frames[victim_frame]
    IN  [self EXCEPT
            !.disk_writes = ClockWriteBack(self.disk_writes, victim),
            !.frames = [s.frames EXCEPT
                           ![victim_frame] = ClockFrame(page_number, dirty)],
            !.hand = (victim_frame + 1) % self.frames_capacity]

\* ClockLoadFree counting a disk write when the page it loads is written
ClockLoadFreeCountsWrite(self, page_number, dirty) ==
    LET idx == Min(ClockFree(self))
    IN  [self EXCEPT
            !.frames = [self.frames EXCEPT ![idx] = ClockFrame(page_number, dirty)],
            !.page_to_index = DictSet(self.page_to_index, page_number, idx),
            !.used = self.used + 1,
            !.disk_writes = self.disk_writes + dirty]

\* the free-frame branch: first free slot, index entry, used += 1
ClockLoadFree(self, page_number, dirty) ==
    LET idx == Min(ClockFree(self))
    IN  [self EXCEPT
            !.frames = [self.frames EXCEPT ![idx] = ClockFrame(page_number, dirty)],
            !.page_to_index = DictSet(self.page_to_index, page_number, idx),
            !.used = self.used + 1]

\* ClockCountMiss with the fault counted a second time
ClockCountMissTwice(self) ==
    [self EXCEPT !.page_faults = self.page_faults + 2,
                 !.disk_reads = self.disk_reads + 1]

\* MISS: page_faults += 1, disk_reads += 1
ClockCountMiss(self) ==
    [self EXCEPT !.page_faults = self.page_faults + 1,
                 !.disk_reads = self.disk_reads + 1]

\* MISS: count the fault and the disk read, then free frame or eviction
ClockMiss(self, page_number, dirty) ==
    LET counted == ClockCountMiss(self)
    IN  IF counted.used < counted.frames_capacity /\ ClockFree(counted) # {}
        THEN ClockLoadFree(counted, page_number, dirty)
        ELSE ClockEvict(counted, page_number, dirty)

\* ClockMMU.read_memory with the hit's reference-bit assignment placed
\* after a return taken in debug mode
ClockReadMemoryDebugReturns(self, page_number) ==
    IF ClockHits(self, page_number) # {}
    THEN LET i == Min(ClockHits(self, page_number))
         IN  [self |-> IF self.debug THEN self
                       ELSE [self EXCEPT !.frames[i].reference_bit = 1],
              raised |-> "None"]
    ELSE [self |-> ClockMiss(self, page_number, 0), raised |-> "None"]

\* ClockMMU.read_memory
ClockReadMemory(self, page_number) ==
    IF ClockHits(self, page_number) # {}
    THEN LET i == Min(ClockHits(self, page_number))
         IN  [self |-> [self EXCEPT !.frames[i].reference_bit = 1],
              raised |-> "None"]
    ELSE [self |-> ClockMiss(self, page_number, 0), raised |-> "None"]

\* ClockMMU.write_memory with the hit setting the dirty bit only
ClockWriteMemoryNoRef(self, page_number) ==
    IF ClockHits(self, page_number) # {}
    THEN LET i == Min(ClockHits(self, page_number))
         IN  [self |-> [self EXCEPT !.frames[i].dirty_bit = 1],
              raised |-> "None"]
    ELSE [self |-> ClockMiss(self, page_number, 1), raised |-> "None"]

\* ClockMMU.write_memory
ClockWriteMemory(self, page_number) ==
    IF ClockHits(self, page_number) # {}
    THEN LET i == Min(ClockHits(self, page_number))
         IN  [self |-> [self EXCEPT !.frames[i].reference_bit = 1,
                                    !.frames[i].dirty_bit = 1],
              raised |-> "None"]
    ELSE [self |-> ClockMiss(self, page_number, 1), raised |-> "None"]

(* ============================= LruMMU =============================== *)
\* lru_list is a Python list kept as a sequence: Python index i is i + 1
\* here, so lru_list[0] is Head and lru_list[-1] is the last element.

\* list.remove(x): drops the first occurrence of x (x is present)
ListRemove(l, x) ==
    LET k == Min({i \in 1..Len(l) : l[i] = x})
    IN  SubSeq(l, 1, k - 1) \o SubSeq(l, k + 1, Len(l))

\* list.append(x) in place of list.insert(0, x)
ListInsertBack(l, x) == l \o <<x>>

\* list.insert(0, x)
ListInsertFront(l, x) == <<x>> \o l

\* the elements of a list
ListElems(l) == {l[i] : i \in 1..Len(l)}

\* LruMMU.__init__ : no check of frames
LruInit(frames) ==
    [self |-> [num_frames |-> frames,
               debug_mode |-> FALSE,
               disk_reads |-> 0,
               disk_writes |-> 0,
               page_faults |-> 0,
               page_table |-> EmptyDict,
               frame_table |-> ListOf(None, frames),
               dirty_pages |-> EmptyDict,
               lru_list |-> <<>>,
               occupied_frames |-> {}],
     raised |-> "None"]

\* LruTouch with the hit leaving the order as it is
LruTouchNoMove(lru_list, page_number) == lru_list

\* "Page hit - update LRU order": remove if present, insert at the front
LruTouch(lru_list, page_number) ==
    IF page_number \in ListElems(lru_list)
    THEN ListInsertFront(ListRemove(lru_list, page_number), page_number)
    ELSE ListInsertFront(lru_list, page_number)

\* LruFindFrame with the search loop never taken
LruFindFrameNone(self) == None

\* "Find frame to use": first index not in occupied_frames, else None
LruFindFrame(self) ==
    LET free == {i \in 0..(self.num_frames - 1) : i \notin self.occupied_frames}
    IN  IF free = {} THEN None ELSE Min(free)

\* victim_page = self.lru_list[0] in place of self.lru_list[-1]
LruVictimFront(lru_list) == lru_list[1]

\* victim_page = self.lru_list[-1]
LruVictim(lru_list) == lru_list[Len(lru_list)]

\* "Write to disk if dirty"
LruWriteBack(self, victim_page) ==
    IF victim_page \in DOMAIN self.dirty_pages /\ self.dirty_pages[victim_page]
    THEN self.disk_writes + 1
    ELSE self.disk_writes

\* "Evict LRU page" / "Remove victim page" (lru_list is non-empty)
LruEvict(self) ==
    LET victim_page == LruVictim(self.lru_list)
        frame_num == self.page_table[victim_page]
    IN  [self EXCEPT
            !.disk_writes = LruWriteBack(self, victim_page),
            !.page_table = DictDel(self.page_table, victim_page),
            !.frame_table = [self.frame_table EXCEPT ![frame_num] = None],
            !.occupied_frames = self.occupied_frames \ {frame_num},
            !.lru_list = ListRemove(self.lru_list, victim_page)]

\* LruLoad as read_memory does it, whatever the access: the page is
\* recorded clean
LruLoadClean(self, frame_num, page_number, dirty) ==
    [self EXCEPT
        !.disk_reads = self.disk_reads + 1,
        !.page_table = DictSet(self.page_table, page_number, frame_num),
        !.frame_table = [self.frame_table EXCEPT ![frame_num] = page_number],
        !.occupied_frames = self.occupied_frames \cup {frame_num},
        !.dirty_pages = DictSet(self.dirty_pages, page_number, FALSE),
        !.lru_list = ListInsertFront(self.lru_list, page_number)]

\* "Load new page" and "Update LRU"
LruLoad(self, frame_num, page_number, dirty) ==
    [self EXCEPT
        !.disk_reads = self.disk_reads + 1,
        !.page_table = DictSet(self.page_table, page_number, frame_num),
        !.frame_table = [self.frame_table EXCEPT ![frame_num] = page_number],
        !.occupied_frames = self.occupied_frames \cup {frame_num},
        !.dirty_pages = DictSet(self.dirty_pages, page_number, dirty),
        !.lru_list = ListInsertFront(self.lru_list, page_number)]

\* LruCountFault with the increment left out
LruCountFaultSkipped(self) == self

\* "Page fault": page_faults += 1
LruCountFault(self) == [self EXCEPT !.page_faults = self.page_faults + 1]

\* "Page fault": count it, find or free a frame, load.  lru_list[-1] on
\* an empty list raises IndexError after page_faults was incremented.
LruFault(self, page_number, dirty) ==
    LET counted == LruCountFault(self)
        frame_num == LruFindFrame(counted)
    IN  IF frame_num # None
        THEN [self |-> LruLoad(counted, frame_num, page_number, dirty),
              raised |-> "None"]
        ELSE IF Len(counted.lru_list) = 0
        THEN [self |-> counted, raised |-> "IndexError"]
        ELSE [self |-> LruLoad(LruEvict(counted),
                               counted.page_table[LruVictim(counted.lru_list)],
                               page_number, dirty),
              raised |-> "None"]

\* LruMMU.read_memory
LruReadMemory(self, page_number) ==
    IF page_number \in DOMAIN self.page_table
    THEN [self |-> [self EXCEPT !.lru_list = LruTouch(self.lru_list, page_number)],
          raised |-> "None"]
    ELSE LruFault(self, page_number, FALSE)

\* LruMMU.write_memory
LruWriteMemory(self, page_number) ==
    IF page_number \in DOMAIN self.page_table
    THEN [self |-> [self EXCEPT
                       !.dirty_pages = DictSet(self.dirty_pages, page_number, TRUE),
                       !.lru_list = LruTouch(self.lru_list, page_number)],
          raised |-> "None"]
    ELSE LruFault(self, page_number, TRUE)

(* ============================= RandMMU ============================== *)
\* RandMMU.__init__ : no check of frames
RandInit(frames) ==
    [self |-> [num_frames |-> frames,
               frames |-> EmptyDict,
               ptable |-> EmptyDict,
               disk_reads |-> 0,
               disk_writes |-> 0,
               page_faults |-> 0,
               debug |-> FALSE],
     raised |-> "None"]

\* len(self.frames)
RandLen(self) == Cardinality(DOMAIN self.frames)

\* the values random.choice(list(self.frames.keys())) can return; with no
\* key the call raises IndexError, written as the one choice None
RandChoices(self) ==
    IF DOMAIN self.frames = {} THEN {None} ELSE DOMAIN self.frames

\* "Free frame available": the next index is len(frames)
RandLoadFree(self, page_number) ==
    LET frame_index == RandLen(self)
    IN  [self EXCEPT
            !.frames = DictSet(self.frames, frame_index, page_number),
            !.ptable = DictSet(self.ptable, page_number, frame_index)]

\* RandReplace without self.ptable.pop(sheepage)
RandReplaceNoPop(self, page_number, sheep) ==
    [self EXCEPT
        !.frames = DictSet(self.frames, sheep, page_number),
        !.ptable = DictSet(self.ptable, page_number, sheep)]

\* replace the page of frame sheep by page_number
RandReplace(self, page_number, sheep) ==
    LET sheepage == self.frames[sheep]
    IN  [self EXCEPT
            !.frames = DictSet(self.frames, sheep, page_number),
            !.ptable = DictSet(DictDel(self.ptable, sheepage), page_number, sheep)]

\* RandWriteEvictCount with the increment left out
RandWriteEvictCountNone(disk_writes) == disk_writes

\* disk_writes after the eviction branch of write_memory
RandWriteEvictCount(disk_writes) == disk_writes + 1

\* "Page fault": page_faults += 1, disk_reads += 1
RandCountFault(self) ==
    [self EXCEPT !.page_faults = self.page_faults + 1,
                 !.disk_reads = self.disk_reads + 1]

\* RandMMU.read_memory; sheep is the outcome of random.choice
RandReadMemory(self, page_number, sheep) ==
    IF page_number \in DOMAIN self.ptable
    THEN [self |-> self, raised |-> "None"]
    ELSE LET counted == RandCountFault(self)
         IN  IF RandLen(counted) < counted.num_frames
             THEN [self |-> RandLoadFree(counted, page_number), raised |-> "None"]
             ELSE IF sheep = None
             THEN [self |-> counted, raised |-> "IndexError"]
             ELSE [self |-> RandReplace(counted, page_number, sheep),
                   raised |-> "None"]

\* RandMMU.write_memory; sheep is the outcome of random.choice
RandWriteMemory(self, page_number, sheep) ==
    IF page_number \in DOMAIN self.ptable
    THEN [self |-> self, raised |-> "None"]
    ELSE LET counted == RandCountFault(self)
         IN  IF RandLen(counted) < counted.num_frames
             THEN [self |-> RandLoadFree(counted, page_number), raised |-> "None"]
             ELSE IF sheep = None
             THEN [self |-> counted, raised |-> "IndexError"]
             ELSE [self |-> RandReplace(
                               [counted EXCEPT !.disk_writes =
                                   RandWriteEvictCount(counted.disk_writes)],
                               page_number, sheep),
                   raised |-> "None"]

(* ============================= getters ============================== *)
\* get_total_disk_reads of the three classes
get_total_disk_reads(self) == self.disk_reads

\* get_total_disk_writes of the three classes
get_total_disk_writes(self) == self.disk_writes

\* get_total_page_faults of the three classes
get_total_page_faults(self) == self.page_faults

(* ========================= the state machine ======================== *)
VARIABLES
    kind,      \* which engine class was instantiated
    mmu,       \* the fields of the instance
    op,        \* the method called last ("__init__" after construction)
    arg,       \* its argument: frames for __init__, else page_number or None
    raised,    \* the exception that call raised, "None" when it returned
    written,   \* resident pages written at or after their latest load
    accessed,  \* LRU runs: the pages accessed so far, latest access first
    twin,      \* a second instance of the same class and capacity, given
               \* the same read/write calls and no set_debug/reset_debug
    loaded,    \* Clock runs: the page the latest fault loaded, else None
    trace      \* the trace events fed so far, when the run keeps them

vars == <<kind, mmu, op, arg, raised, written, accessed, twin, loaded, trace>>

\* the constructor call memsim makes for the chosen algorithm
Construct(k, frames) ==
    CASE k = "clock" -> ClockInit(frames)
      [] k = "lru"   -> LruInit(frames)
      [] k = "rand"  -> RandInit(frames)

\* an instance exists unless its constructor raised
Constructed == ~(op = "__init__" /\ raised # "None")

\* the frame count the instance was given
Capacity ==
    IF kind = "clock" THEN mmu.frames_capacity ELSE mmu.num_frames

\* pages held by a ClockMMU's frames
ClockResident(self) ==
    {self.frames[i].page_number :
        i \in {j \in DOMAIN self.frames : self.frames[j] # NoneFrame}}

\* pages a LruMMU holds (keys of page_table)
LruResident(self) == DOMAIN self.page_table

\* pages a RandMMU holds (keys of ptable)
RandResident(self) == DOMAIN self.ptable

\* pages resident in instance self of class k
ResidentOf(k, self) ==
    CASE k = "clock" -> ClockResident(self)
      [] k = "lru"   -> LruResident(self)
      [] k = "rand"  -> RandResident(self)

\* the dirty flag instance self of class k (Clock or LRU) keeps for page
DirtyOf(k, self, page) ==
    CASE k = "clock" ->
            \E i \in DOMAIN self.frames :
                /\ self.frames[i] # NoneFrame
                /\ self.frames[i].page_number = page
                /\ self.frames[i].dirty_bit = 1
      [] k = "lru"   ->
            page \in DOMAIN self.dirty_pages /\ self.dirty_pages[page]

Resident == IF Constructed THEN ResidentOf(kind, mmu) ELSE {}

\* number of occupied frames of instance self of class k
OccupiedOf(k, self) ==
    CASE k = "clock" ->
            Cardinality({i \in DOMAIN self.frames : self.frames[i] # NoneFrame})
      [] k = "lru"   ->
            Cardinality({i \in DOMAIN self.frame_table : self.frame_table[i] # None})
      [] k = "rand"  -> Cardinality(DOMAIN self.frames)

Occupied == IF Constructed THEN OccupiedOf(kind, mmu) ELSE 0

\* the trace's write history after a call on page_number that left the
\* instance as self: evicted pages drop out, a read load is unwritten, a
\* write marks its page
WrittenAfter(k, self, method, page_number) ==
    LET kept == (written \ {page_number}) \cap ResidentOf(k, self)
        hit == page_number \in Resident
    IN  IF page_number \notin ResidentOf(k, self) THEN kept
        ELSE IF method = "write_memory" THEN kept \cup {page_number}
        ELSE IF hit /\ page_number \in written THEN kept \cup {page_number}
        ELSE kept

\* the trace's access history after a call on page_number: the page moves
\* to the front (the history is kept for LruMMU runs only)
AccessedAfter(k, page_number) ==
    IF k # "lru" THEN <<>>
    ELSE <<page_number>> \o SelectSeq(accessed, LAMBDA q : q # page_number)

\* the page the latest fault loaded, after a call on page_number that left
\* the instance as self (kept for ClockMMU runs only)
LoadedAfter(k, self, page_number) ==
    IF k # "clock" THEN None
    ELSE IF page_number \notin Resident /\ page_number \in ResidentOf(k, self)
    THEN page_number
    ELSE loaded

\* the events fed so far after a call of method on page_number
TraceAfter(method, page_number) ==
    IF trace.kept
    THEN [trace EXCEPT !.events =
             Append(@, [method |-> method, page_number |-> page_number])]
    ELSE trace

\* the state after the constructor call k(frames); keep says whether the
\* run records its trace events
Constructing(k, frames, keep) ==
    /\ kind = k
    /\ mmu = Construct(k, frames).self
    /\ raised = Construct(k, frames).raised
    /\ op = "__init__"
    /\ arg = frames
    /\ written = {}
    /\ accessed = <<>>
    /\ twin = Construct(k, frames).self
    /\ loaded = None
    /\ trace = [kept |-> keep, events |-> <<>>]

Init ==
    \E k \in Kinds, frames \in Capacities : Constructing(k, frames, FALSE)

\* one call of method on page_number with result r, and result rt of the
\* same call on the twin
Call(method, page_number, r, rt) ==
    /\ mmu' = r.self
    /\ twin' = rt.self
    /\ raised' = r.raised
    /\ op' = method
    /\ arg' = page_number
    /\ written' = WrittenAfter(kind, r.self, method, page_number)
    /\ accessed' = AccessedAfter(kind, page_number)
    /\ loaded' = LoadedAfter(kind, r.self, page_number)
    /\ trace' = TraceAfter(method, page_number)
    /\ UNCHANGED kind

\* the driver feeds trace events while the instance exists
CanCall(k) == Constructed /\ kind = k /\ mmu.page_faults < MaxFaults

ClockRead(p) ==
    CanCall("clock") /\ Call("read_memory", p, ClockReadMemory(mmu, p),
                                ClockReadMemory(twin, p))

ClockWrite(p) ==
    CanCall("clock") /\ Call("write_memory", p, ClockWriteMemory(mmu, p),
                                ClockWriteMemory(twin, p))

LruRead(p) ==
    CanCall("lru") /\ Call("read_memory", p, LruReadMemory(mmu, p),
                                LruReadMemory(twin, p))

LruWrite(p) ==
    CanCall("lru") /\ Call("write_memory", p, LruWriteMemory(mmu, p),
                                LruWriteMemory(twin, p))

RandRead(p) ==
    /\ CanCall("rand")
    /\ \E sheep \in RandChoices(mmu) :
          Call("read_memory", p, RandReadMemory(mmu, p, sheep),
                                 RandReadMemory(twin, p, sheep))

RandWrite(p) ==
    /\ CanCall("rand")
    /\ \E sheep \in RandChoices(mmu) :
          Call("write_memory", p, RandWriteMemory(mmu, p, sheep),
                                  RandWriteMemory(twin, p, sheep))

\* set_debug / reset_debug of the three classes (LruMMU names the flag
\* debug_mode)
SetDebugTo(self, k, v) ==
    IF k = "lru" THEN [self EXCEPT !.debug_mode = v] ELSE [self EXCEPT !.debug = v]

SetDebug ==
    /\ Constructed
    /\ mmu' = SetDebugTo(mmu, kind, TRUE)
    /\ op' = "set_debug" /\ arg' = None /\ raised' = "None"
    /\ UNCHANGED <<kind, written, accessed, twin, loaded, trace>>

ResetDebug ==
    /\ Constructed
    /\ mmu' = SetDebugTo(mmu, kind, FALSE)
    /\ op' = "reset_debug" /\ arg' = None /\ raised' = "None"
    /\ UNCHANGED <<kind, written, accessed, twin, loaded, trace>>

\* a getter call: returns a counter, assigns nothing
Getter(method) ==
    /\ Constructed
    /\ op' = method /\ arg' = None /\ raised' = "None"
    /\ UNCHANGED <<kind, mmu, written, accessed, twin, loaded, trace>>

GetTotalDiskReads == Getter("get_total_disk_reads")

GetTotalDiskWrites == Getter("get_total_disk_writes")

GetTotalPageFaults == Getter("get_total_page_faults")

Next ==
    \/ \E p \in Pages : ClockRead(p)
    \/ \E p \in Pages : ClockWrite(p)
    \/ \E p \in Pages : LruRead(p)
    \/ \E p \in Pages : LruWrite(p)
    \/ \E p \in Pages : RandRead(p)
    \/ \E p \in Pages : RandWrite(p)
    \/ SetDebug
    \/ ResetDebug
    \/ GetTotalDiskReads
    \/ GetTotalDiskWrites
    \/ GetTotalPageFaults

Spec == Init /\ [][Next]_vars

(* ------------------- runs on the spec's scenario traces -------------- *)
\* page numbers of the scenario traces
ScenarioPages == {5, 6, 7, 8}
\* frame counts of the scenario runs
ScenarioCapacities == {1, 2, 3}
\* a scenario run feeds at most this many events
MaxTrace == 4

ScenarioInit ==
    \E k \in Kinds, frames \in ScenarioCapacities : Constructing(k, frames, TRUE)

\* the driver has events left to feed
CanFeed == Len(trace.events) < MaxTrace

ScenarioNext ==
    \/ \E p \in ScenarioPages : CanFeed /\ ClockRead(p)
    \/ \E p \in ScenarioPages : CanFeed /\ ClockWrite(p)
    \/ \E p \in ScenarioPages : CanFeed /\ LruRead(p)
    \/ \E p \in ScenarioPages : CanFeed /\ LruWrite(p)
    \/ \E p \in ScenarioPages : CanFeed /\ RandRead(p)
    \/ \E p \in ScenarioPages : CanFeed /\ RandWrite(p)

ScenarioSpec == ScenarioInit /\ [][ScenarioNext]_vars

(* ============================== claims ============================== *)
Access == {"read_memory", "write_memory"}

\* the last call evicted a page: the instance is full and has taken more
\* faults than it has frames
HasEvicted ==
    /\ Constructed /\ Capacity >= 1
    /\ Occupied = Capacity
    /\ mmu.page_faults > Capacity

\* C1: for each engine built with capacity >= 1, the number of resident
\* pages (occupied frames) never exceeds the capacity.
C1_CapacityInvariant ==
    (Constructed /\ Capacity >= 1) =>
        /\ Occupied <= Capacity
        /\ Cardinality(Resident) <= Capacity

\* C1 witness: a full Random engine that has already evicted
C1_Witness == HasEvicted /\ kind = "rand" /\ Capacity >= 2

\* C2: no page is held by two frames: Clock's non-empty frames, LRU's
\* frame_table entries and Random's frames values are pairwise distinct.
C2_Uniqueness ==
    Constructed =>
        CASE kind = "clock" ->
                \A i, j \in DOMAIN mmu.frames :
                    (/\ mmu.frames[i] # NoneFrame
                     /\ mmu.frames[j] # NoneFrame
                     /\ mmu.frames[i].page_number = mmu.frames[j].page_number)
                    => i = j
          [] kind = "lru" ->
                \A i, j \in DOMAIN mmu.frame_table :
                    (/\ mmu.frame_table[i] # None
                     /\ mmu.frame_table[i] = mmu.frame_table[j])
                    => i = j
          [] kind = "rand" ->
                \A i, j \in DOMAIN mmu.frames :
                    mmu.frames[i] = mmu.frames[j] => i = j

\* C2 witness: a full Clock engine of at least two frames after an eviction
C2_Witness == HasEvicted /\ kind = "clock" /\ Capacity >= 2

\* C3: page_faults starts at 0 and each read/write call adds exactly 1 to
\* it when its page was not resident at call time, and 0 when it was.
C3_FaultCounting ==
    /\ (Constructed => mmu.page_faults = 0)
    /\ [][op' \in Access =>
            mmu'.page_faults =
                mmu.page_faults + (IF arg' \in Resident THEN 0 ELSE 1)]_vars

\* C3 witness: an LRU engine past its first eviction whose last call
\* returned with its page at the front of the recency list
C3_Witness ==
    /\ kind = "lru" /\ op \in Access /\ raised = "None"
    /\ mmu.page_faults > Capacity /\ Capacity >= 1
    /\ mmu.lru_list[1] = arg
    /\ mmu.page_faults < MaxFaults

\* C4 (as stated): disk_reads = page_faults in every reachable state of
\* every engine.
C4_ReadsEqualFaults ==
    Constructed => mmu.disk_reads = mmu.page_faults

\* C5: in Clock and LRU a call adds exactly 1 to disk_writes when it evicts
\* a victim whose dirty flag is set (which is so exactly when the victim was
\* written at or after its latest load) and leaves disk_writes unchanged
\* otherwise: on hits, free-frame loads and evictions of a clean victim.
C5_WriteBackAccounting ==
    [][(kind \in {"clock", "lru"} /\ op' \in Access) =>
        LET evicted == Resident \ ResidentOf(kind, mmu')
        IN  /\ \A v \in evicted : DirtyOf(kind, mmu, v) <=> v \in written
            /\ mmu'.disk_writes =
                 mmu.disk_writes +
                 (IF \E v \in evicted : DirtyOf(kind, mmu, v) THEN 1 ELSE 0)]_vars

\* C5 witness: a Clock engine that has evicted dirty and clean victims
C5_Witness ==
    /\ HasEvicted /\ kind = "clock"
    /\ mmu.disk_writes >= 1
    /\ mmu.page_faults - Capacity > mmu.disk_writes

\* C6 (as stated): in every engine, Random included, disk_writes grows only
\* on a call that evicts a page written at or after its latest load.
C6_WritesOnlyForDirtyVictim ==
    [][(op' \in Access /\ mmu'.disk_writes > mmu.disk_writes) =>
        \E v \in Resident \ ResidentOf(kind, mmu') : v \in written]_vars

\* C7: in Random a call adds exactly 1 to disk_writes when it is a write
\* miss that causes an eviction, and a returning call evicts exactly when
\* it misses with len(frames) >= num_frames; every read, every write hit
\* and every write miss into a free frame leaves disk_writes unchanged.
C7_RandomWriteMissCounts ==
    [][(kind = "rand" /\ op' \in Access) =>
        LET miss == arg' \notin Resident
            full == RandLen(mmu) >= mmu.num_frames
            evicts == Resident \ ResidentOf(kind, mmu') # {}
        IN  /\ raised' = "None" => (evicts <=> (miss /\ full))
            /\ mmu'.disk_writes =
                 mmu.disk_writes +
                 (IF op' = "write_memory" /\ miss /\ evicts THEN 1 ELSE 0)]_vars

\* C7 witness: a Random engine whose evictions were counted for some
\* (write misses) and not for others (read misses)
C7_Witness ==
    /\ HasEvicted /\ kind = "rand"
    /\ mmu.disk_writes >= 1
    /\ mmu.page_faults - Capacity > mmu.disk_writes

\* C8: in Clock and LRU, when write_memory(p) returns p is resident and
\* dirty, and when a read_memory(p) that faulted returns p is resident and
\* not dirty.
C8_DirtyAfterAccess ==
    [][(kind \in {"clock", "lru"} /\ op' \in Access /\ raised' = "None") =>
        /\ op' = "write_memory" =>
              /\ arg' \in ResidentOf(kind, mmu')
              /\ DirtyOf(kind, mmu', arg')
        /\ (op' = "read_memory" /\ arg' \notin Resident) =>
              /\ arg' \in ResidentOf(kind, mmu')
              /\ ~DirtyOf(kind, mmu', arg')]_vars

\* C8 witness: a full Clock engine past an eviction whose last call was a
\* write, with a clean page next to the written one
C8_Witness ==
    /\ HasEvicted /\ kind = "clock" /\ op = "write_memory"
    /\ DirtyOf(kind, mmu, arg)
    /\ \E q \in Resident : ~DirtyOf(kind, mmu, q)

\* C9 (as stated): no engine instance with capacity < 1 ever exists.
C9_NoEngineBelowOne ==
    Constructed => Capacity >= 1

\* C10 (as stated): on an instance whose construction succeeded, no
\* read_memory or write_memory call raises.
C10_CallsNeverRaise ==
    (Constructed /\ op \in Access) => raised = "None"

\* the three counters of an instance, as its getters return them
Counters(self) ==
    <<get_total_page_faults(self), get_total_disk_reads(self),
      get_total_disk_writes(self)>>

\* C11: the three counters are 0 after construction; a read/write call
\* leaves each of them unchanged or adds exactly 1 to it; set_debug,
\* reset_debug and the getters leave all three unchanged.
C11_CountersMonotonic ==
    /\ (Constructed => Counters(mmu) = <<0, 0, 0>>)
    /\ [][IF op' \in Access
          THEN \A c \in 1..3 :
                   Counters(mmu')[c] - Counters(mmu)[c] \in {0, 1}
          ELSE Counters(mmu') = Counters(mmu)]_vars

\* C11 witness: a getter called on an engine whose three counters have all
\* grown, disk_writes less than the others
C11_Witness ==
    /\ Constructed /\ op = "get_total_disk_writes"
    /\ mmu.disk_writes >= 1
    /\ mmu.disk_writes < mmu.page_faults
    /\ mmu.disk_reads >= 2

\* C12: debug mode is purely observational in Clock and LRU: the instance
\* that took set_debug/reset_debug calls between its accesses and the twin
\* that took none agree on every field but the debug flag (counters, page
\* of every frame, dirty and reference bits, hand, recency order).
C12_DebugObservational ==
    (Constructed /\ kind \in {"clock", "lru"}) =>
        SetDebugTo(mmu, kind, FALSE) = twin

\* C12 witness: a Clock engine past an eviction whose last access ran in
\* debug mode
C12_Witness ==
    /\ HasEvicted /\ kind = "clock" /\ op \in Access
    /\ mmu.debug = TRUE /\ twin.debug = FALSE

\* position of page q in the access history: 1 for the latest access
AccessRank(q) == Min({i \in 1..Len(accessed) : accessed[i] = q})

\* the page of the non-empty set S whose latest access is the oldest
LeastRecentlyAccessed(S) ==
    CHOOSE v \in S : \A q \in S : AccessRank(q) <= AccessRank(v)

\* C13: in LRU a fault taken with every frame occupied evicts the resident
\* page whose latest access (read or write, hit or load) is the oldest, and
\* removes no other resident page.
C13_LruVictimIsOldest ==
    [][(/\ kind = "lru" /\ op' \in Access
        /\ arg' \notin Resident
        /\ Occupied >= Capacity) =>
        Resident \ ResidentOf(kind, mmu') =
            IF Resident = {} THEN {} ELSE {LeastRecentlyAccessed(Resident)}]_vars

\* C13 witness: a two-frame LRU engine whose first eviction took frame 1
\* and kept the page loaded first in frame 0, which a hit had refreshed
C13_Witness ==
    /\ HasEvicted /\ kind = "lru" /\ Capacity = 2 /\ op \in Access
    /\ mmu.page_faults = Capacity + 1
    /\ mmu.frame_table[1] = arg
    /\ Len(accessed) = 3 /\ accessed[2] = mmu.frame_table[0]

\* C14: in LRU with capacity k an access to a page accessed before is a hit
\* when fewer than k distinct other pages were accessed since its previous
\* access, and a fault when at least k were.
C14_LruExactness ==
    [][(kind = "lru" /\ op' \in Access /\ arg' \in ListElems(accessed)) =>
        LET others == AccessRank(arg') - 1
        IN  /\ others < Capacity =>
                /\ arg' \in Resident
                /\ mmu'.page_faults = mmu.page_faults
            /\ others >= Capacity =>
                /\ arg' \notin Resident
                /\ mmu'.page_faults = mmu.page_faults + 1]_vars

\* C14 witness: a two-frame LRU engine that has touched three distinct
\* pages and faulted again on one of them
C14_Witness ==
    /\ kind = "lru" /\ Capacity = 2 /\ op \in Access /\ raised = "None"
    /\ Len(accessed) = 3
    /\ mmu.page_faults >= 4

\* C15: in LRU lru_list holds exactly the keys of page_table, each once,
\* ordered by latest access with the most recent first.
C15_RecencyOrder ==
    (Constructed /\ kind = "lru") =>
        /\ mmu.lru_list =
              SelectSeq(accessed, LAMBDA q : q \in DOMAIN mmu.page_table)
        /\ ListElems(mmu.lru_list) = DOMAIN mmu.page_table
        /\ Len(mmu.lru_list) = Cardinality(DOMAIN mmu.page_table)

\* C15 witness: a full two-frame LRU engine past an eviction whose most
\* recent page sits in frame 0 and whose history holds an evicted page
C15_Witness ==
    /\ HasEvicted /\ kind = "lru" /\ Capacity = 2
    /\ Len(mmu.lru_list) = 2 /\ Len(accessed) = 3
    /\ mmu.lru_list[1] = mmu.frame_table[0]

\* frames with the reference bits replaced by the pattern b
WithReferenceBits(frames, b) ==
    [i \in DOMAIN frames |-> [frames[i] EXCEPT !.reference_bit = b[i]]]

\* C16: from every reachable full Clock state and for every pattern of
\* reference bits, the eviction sweep stops on a victim (a frame whose bit
\* is 0) after at most 2 * capacity loop iterations.
C16_SweepTerminates ==
    (Constructed /\ kind = "clock" /\ Occupied = Capacity) =>
        \A b \in [DOMAIN mmu.frames -> {0, 1}] :
            LET s == ClockSweep(WithReferenceBits(mmu.frames, b), mmu.hand,
                                mmu.frames_capacity, 0)
            IN  /\ s.steps <= 2 * mmu.frames_capacity
                /\ s.hand \in DOMAIN mmu.frames
                /\ s.frames[s.hand].reference_bit = 0

\* C16 witness: a full Clock engine of two frames past an eviction with
\* every reference bit set, the sweep's longest case
C16_Witness ==
    /\ HasEvicted /\ kind = "clock" /\ Capacity = 2
    /\ \A i \in DOMAIN mmu.frames : mmu.frames[i].reference_bit = 1

\* frame index d positions after the hand, in cyclic order
AtOffset(d) == (mmu.hand + d) % mmu.frames_capacity

\* number of frames the sweep passes before its victim: the offset of the
\* first frame whose reference bit is 0, or capacity when every bit is 1
PassedBeforeVictim ==
    LET zero == {d \in 0..(mmu.frames_capacity - 1) :
                    mmu.frames[AtOffset(d)].reference_bit = 0}
    IN  IF zero = {} THEN mmu.frames_capacity ELSE Min(zero)

C18_HandMovement ==
    /\ ((Constructed /\ kind = "clock") => mmu.hand = 0)
    /\ [][(kind = "clock" /\ op' \in Access) =>
            /\ mmu'.hand \in 0..(mmu.frames_capacity - 1)
            /\ IF arg' \in Resident \/ Occupied < Capacity
               THEN mmu'.hand = mmu.hand
               ELSE \E v \in DOMAIN mmu.frames :
                       /\ mmu.frames[v].page_number \notin ResidentOf(kind, mmu')
                       /\ mmu'.frames[v].page_number = arg'
                       /\ mmu'.frames[v].reference_bit = 1
                       /\ mmu'.hand = (v + 1) % mmu.frames_capacity]_vars

\* C18 witness: a two-frame Clock engine whose last eviction took frame 1
\* and wrapped the hand to 0
C18_Witness ==
    /\ HasEvicted /\ kind = "clock" /\ Capacity = 2 /\ op \in Access
    /\ mmu.page_faults >= Capacity + 2
    /\ mmu.frames[1].page_number = arg
    /\ mmu.hand = 0

\* C19: a read or write of a resident page changes no counter and leaves
\* the resident pages and their frames as they are; Clock sets the page's
\* reference bit, LRU moves the page to the head of the recency order,
\* Random changes no field at all.
C19_HitEffect ==
    [][(op' \in Access /\ arg' \in Resident) =>
        /\ Counters(mmu') = Counters(mmu)
        /\ ResidentOf(kind, mmu') = Resident
        /\ CASE kind = "clock" ->
                  \A i \in DOMAIN mmu.frames :
                      /\ mmu'.frames[i].page_number = mmu.frames[i].page_number
                      /\ mmu.frames[i].page_number = arg' =>
                            mmu'.frames[i].reference_bit = 1
             [] kind = "lru" ->
                  /\ mmu'.frame_table = mmu.frame_table
                  /\ mmu'.page_table = mmu.page_table
                  /\ mmu'.lru_list =
                        <<arg'>> \o SelectSeq(mmu.lru_list, LAMBDA q : q # arg')
             [] kind = "rand" -> mmu' = mmu]_vars

\* C19 witness: a two-frame LRU engine with two faults whose last call
\* hit the page loaded first
C19_Witness ==
    /\ kind = "lru" /\ Capacity = 2 /\ op \in Access
    /\ mmu.page_faults = 2 /\ Len(accessed) = 2
    /\ accessed[1] = arg /\ mmu.frame_table[0] = arg

\* C20: in Clock and LRU a resident page's dirty flag stays set from a
\* write until the page is evicted (read hits and the Clock sweep do not
\* clear it), and the flag is false exactly for the pages not written at
\* or after their latest load.
C20_DirtySticky ==
    [][(kind \in {"clock", "lru"} /\ op' \in Access) =>
        /\ \A q \in Resident \cap ResidentOf(kind, mmu') :
              DirtyOf(kind, mmu, q) => DirtyOf(kind, mmu', q)
        /\ \A q \in ResidentOf(kind, mmu') :
              DirtyOf(kind, mmu', q) <=> q \in written']_vars

\* C20 witness: a Clock engine past an eviction holding a dirty page whose
\* reference bit the sweep cleared, next to a clean page
C20_Witness ==
    /\ HasEvicted /\ kind = "clock"
    /\ \E i, j \in DOMAIN mmu.frames :
          /\ mmu.frames[i].dirty_bit = 1 /\ mmu.frames[i].reference_bit = 0
          /\ mmu.frames[j].dirty_bit = 0

\* the events of a trace that reads the pages ps in order
Reads(ps) ==
    [i \in 1..Len(ps) |-> [method |-> "read_memory", page_number |-> ps[i]]]

\* C22: Clock with capacity 1 reading pages 5, 5, 6: the first read faults
\* and loads 5; the second is a hit that leaves the reference bit 1 and
\* counts no fault; the third faults, evicts 5 with disk_writes unchanged
\* and loads 6; at the end page_faults = 2, disk_reads = 2, disk_writes = 0
\* and the resident set is {6}.
C22_ClockScenario ==
    (kind = "clock" /\ Capacity = 1) =>
        /\ trace.events = Reads(<<5>>) =>
              /\ Counters(mmu) = <<1, 1, 0>>
              /\ Resident = {5}
        /\ trace.events = Reads(<<5, 5>>) =>
              /\ Counters(mmu) = <<1, 1, 0>>
              /\ Resident = {5}
              /\ mmu.frames[0].reference_bit = 1
        /\ trace.events = Reads(<<5, 5, 6>>) =>
              /\ Counters(mmu) = <<2, 2, 0>>
              /\ Resident = {6}
              /\ mmu.frames[0].dirty_bit = 0

\* C22 witness: the one-frame Clock engine after the reads 5, 5, 6
C22_Witness ==
    /\ kind = "clock" /\ Capacity = 1
    /\ trace.events = Reads(<<5, 5, 6>>)
    /\ op = "read_memory" /\ arg = 6 /\ loaded = 6

\* the pages of the events fed so far, in order
TracePages == [i \in 1..Len(trace.events) |-> trace.events[i].page_number]

\* the trace so far is all writes, of pairwise distinct pages
DistinctWrites ==
    /\ \A i \in 1..Len(trace.events) : trace.events[i].method = "write_memory"
    /\ \A i, j \in 1..Len(trace.events) :
          TracePages[i] = TracePages[j] => i = j

\* C23: each engine with capacity 3 that is written three distinct pages
\* and then a fourth takes three faults without eviction (disk_writes 0,
\* all three pages resident) and then a fault that evicts one of the three
\* and adds exactly 1 to disk_writes: page_faults = 4, disk_reads = 4,
\* disk_writes = 1, whichever victim is chosen.
C23_WriteScenario ==
    (Constructed /\ Capacity = 3 /\ DistinctWrites) =>
        LET n == Len(trace.events)
        IN  /\ n <= 3 =>
                /\ Counters(mmu) = <<n, n, 0>>
                /\ Resident = ListElems(TracePages)
            /\ n = 4 =>
                /\ Counters(mmu) = <<4, 4, 1>>
                /\ TracePages[4] \in Resident
                /\ Cardinality(Resident) = 3
                /\ Resident \subseteq ListElems(TracePages)

\* C23 witness: a three-frame Random engine after four writes of distinct
\* pages, whose choice of victim was the page written second
C23_Witness ==
    /\ kind = "rand" /\ Capacity = 3 /\ DistinctWrites
    /\ Len(trace.events) = 4
    /\ TracePages[2] \notin Resident
    /\ mmu.disk_writes = 1

\* C24: in every engine no call lowers the number of resident pages; a
\* fault taken with fewer than capacity frames occupied raises it by
\* exactly 1; a page leaves only on a fault taken with all capacity frames
\* occupied, which removes exactly one page and adds the faulting one; a
\* full engine stays full.
C24_ResidencyGrowth ==
    [][Constructed =>
        LET pages == ResidentOf(kind, mmu')
            evicted == Resident \ pages
            fault == op' \in Access /\ arg' \notin Resident
        IN  /\ Cardinality(pages) >= Cardinality(Resident)
            /\ (fault /\ Occupied < Capacity) =>
                  /\ pages = Resident \cup {arg'}
                  /\ Cardinality(pages) = Cardinality(Resident) + 1
            /\ evicted # {} =>
                  /\ fault /\ Occupied = Capacity
                  /\ Cardinality(evicted) = 1
                  /\ pages = (Resident \ evicted) \cup {arg'}
            /\ Occupied = Capacity =>
                  /\ OccupiedOf(kind, mmu') = Capacity
                  /\ Cardinality(pages) = Cardinality(Resident)]_vars

\* C24 witness: a two-frame LRU engine, full since its second fault, that
\* has evicted twice
C24_Witness ==
    /\ HasEvicted /\ kind = "lru" /\ Capacity = 2
    /\ mmu.page_faults = Capacity + 2
    /\ Cardinality(Resident) = 2

\* C25 (as stated): in every reachable Clock state the keys of
\* page_to_index are exactly the resident pages, and page_to_index[p] = i
\* implies that frames[i] holds page p, also after evictions.
C25_IndexAgrees ==
    (Constructed /\ kind = "clock") =>
        /\ DOMAIN mmu.page_to_index = Resident
        /\ \A p \in DOMAIN mmu.page_to_index :
              mmu.frames[mmu.page_to_index[p]].page_number = p

\* C26: in every engine with capacity >= 1, disk_writes never exceeds the
\* number of evictions so far, max(0, page_faults - capacity), and it is 0
\* as long as no more than capacity distinct pages have been accessed.
C26_WritesBoundedByEvictions ==
    (Constructed /\ Capacity >= 1) =>
        /\ mmu.disk_writes <=
              (IF mmu.page_faults > Capacity
               THEN mmu.page_faults - Capacity ELSE 0)
        /\ Cardinality(ListElems(TracePages)) <= Capacity =>
              mmu.disk_writes = 0

\* C26 witness: a two-frame Clock engine fed three distinct pages, two of
\* them written before the fourth event evicts one and writes it back
C26_Witness ==
    /\ kind = "clock" /\ Capacity = 2
    /\ Len(trace.events) = 4
    /\ Cardinality(ListElems(TracePages)) = 3
    /\ trace.events[1].method = "write_memory"
    /\ trace.events[2].method = "write_memory"
    /\ mmu.page_faults = 3 /\ mmu.disk_writes = 1

\* C27: in Clock with capacity >= 2 the page loaded by the latest fault is
\* not the victim of the next fault, whatever hits came in between: it is
\* still resident, in the same frame, when the next fault returns.
C27_LatestLoadSurvives ==
    [][(/\ kind = "clock" /\ Capacity >= 2
        /\ op' \in Access /\ arg' \notin Resident
        /\ loaded # None) =>
        /\ loaded \in ResidentOf(kind, mmu')
        /\ \A v \in DOMAIN mmu.frames :
              mmu.frames[v].page_number = loaded =>
                  mmu'.frames[v].page_number = loaded]_vars

\* C27 witness: a two-frame Clock engine after two evictions, the second
\* of which took the frame next to the page the first had loaded and left
\* both frames referenced
C27_Witness ==
    /\ HasEvicted /\ kind = "clock" /\ Capacity = 2
    /\ mmu.page_faults = Capacity + 2
    /\ op \in Access /\ loaded = arg
    /\ \A i \in DOMAIN mmu.frames : mmu.frames[i].reference_bit = 1

=============================================================================
